---- MODULE Spec2Model ----
(***************************************************************************)
(* Mergington High School activities API (src/src/app.py).                 *)
(*                                                                         *)
(* The registry is the module-level dict `activities`: activity name ->    *)
(* record (description, schedule, max_participants, participants).  Each   *)
(* request handler runs to completion; one action models one handler.      *)
(***************************************************************************)
EXTENDS Integers, Sequences, FiniteSets, TLC

VARIABLES
    activities,   \* the in-memory activity database (app.py:23)
    request,      \* the last request received
    response,     \* the response returned to it: status code and JSON body
    before,       \* the value of `activities` when the last request arrived
    threads       \* sign-up requests being handled at the same time, each
                  \* with its parameters, its position in the handler and
                  \* its response

vars == <<activities, request, response, before, threads>>

----------------------------------------------------------------------------
(* Bounds of the model. *)

\* Free places left on the Chess Club roster in the pre-filled initial state.
FreePlaces == 1

\* Sign-up requests handled at the same time by the worker threads.
NumCalls == 2

----------------------------------------------------------------------------
(* The seed data, app.py:23-78. *)

Activity(description, schedule, max_participants, participants) ==
    [description |-> description, schedule |-> schedule,
     max_participants |-> max_participants, participants |-> participants]

activities_seed ==
    ("Chess Club" :> Activity(
        "Learn strategies and compete in chess tournaments",
        "Fridays, 3:30 PM - 5:00 PM", 12,
        <<"michael@mergington.edu", "daniel@mergington.edu">>)) @@
    ("Programming Class" :> Activity(
        "Learn programming fundamentals and build software projects",
        "Tuesdays and Thursdays, 3:30 PM - 4:30 PM", 20,
        <<"emma@mergington.edu", "sophia@mergington.edu">>)) @@
    ("Gym Class" :> Activity(
        "Physical education and sports activities",
        "Mondays, Wednesdays, Fridays, 2:00 PM - 3:00 PM", 30,
        <<"john@mergington.edu", "olivia@mergington.edu">>)) @@
    ("Soccer Team" :> Activity(
        "Competitive soccer team with practices and matches",
        "Mondays, Wednesdays, 4:00 PM - 6:00 PM", 22,
        <<"liam@mergington.edu", "ava@mergington.edu">>)) @@
    ("Swimming Club" :> Activity(
        "Lap swimming and technique training at the school pool",
        "Tuesdays and Thursdays, 5:00 PM - 6:30 PM", 18,
        <<"noah@mergington.edu", "mia@mergington.edu">>)) @@
    ("Art Club" :> Activity(
        "Explore drawing, painting, and mixed media projects",
        "Wednesdays, 3:45 PM - 5:00 PM", 16,
        <<"isabella@mergington.edu", "lucas@mergington.edu">>)) @@
    ("Drama Club" :> Activity(
        "Acting, play production, and stagecraft workshops",
        "Fridays, 4:00 PM - 6:00 PM", 25,
        <<"charlotte@mergington.edu", "eli@mergington.edu">>)) @@
    ("Debate Team" :> Activity(
        "Prepare for debate tournaments and practice public speaking",
        "Thursdays, 4:00 PM - 5:30 PM", 14,
        <<"amelia@mergington.edu", "jack@mergington.edu">>)) @@
    ("Robotics Club" :> Activity(
        "Design, build, and program robots for competitions",
        "Mondays and Wednesdays, 3:30 PM - 5:30 PM", 12,
        <<"henry@mergington.edu", "zoe@mergington.edu">>))

----------------------------------------------------------------------------
(* Request inputs. *)

\* Path parameter activity_name: two seeded activities and a name that is
\* not a key of the registry (tests/test_api.py:71).
ActivityNames == {"Chess Club", "Programming Class", "Nonexistent Club"}

\* Query parameter email: a seeded Chess Club participant, an identifier
\* that is on no seeded roster, and the empty string (tests/test_api.py:258).
Emails == {"michael@mergington.edu", "new@x.edu", ""}

----------------------------------------------------------------------------
(* Responses. *)

\* raise HTTPException(status_code=..., detail=...)
HTTPException(status_code, detail) ==
    [status_code |-> status_code, json |-> [detail |-> detail]]

\* return {"message": ...}
Message(message) ==
    [status_code |-> 200, json |-> [message |-> message]]

\* `email in activity["participants"]`
Contains(participants, email) ==
    \E i \in 1..Len(participants) : participants[i] = email

----------------------------------------------------------------------------
(* The format the data validation tests expect of a participant email,     *)
(* tests/test_data_validation.py:107-118.                                   *)

\* email.endswith(suffix)
EndsWith(email, suffix) ==
    /\ Len(email) >= Len(suffix)
    /\ SubSeq(email, Len(email) - Len(suffix) + 1, Len(email)) = suffix

\* email.split("@")[0]
Username(email) ==
    LET ats == {i \in 1..Len(email) : SubSeq(email, i, i) = "@"}
    IN IF ats = {} THEN email
       ELSE SubSeq(email, 1,
                   (CHOOSE i \in ats : \A j \in ats : i <= j) - 1)

WellFormedEmail(email) ==
    /\ EndsWith(email, "@mergington.edu")
    /\ Len(Username(email)) > 0

----------------------------------------------------------------------------
(* POST /activities/{activity_name}/signup, app.py:91-111. *)

\* Mutation: the missing activity reported as a bad request.
ActivityNotFound_BadRequest ==
    HTTPException(400, "Activity not found")

\* app.py:96
ActivityNotFound ==
    HTTPException(404, "Activity not found")

\* Mutation: only the most recent participant is compared.
AlreadySignedUp_LastOnly(activity, email) ==
    /\ Len(activity.participants) > 0
    /\ activity.participants[Len(activity.participants)] = email

\* Mutation: the duplicate validation is missing.
AlreadySignedUp_Unchecked(activity, email) ==
    FALSE

\* app.py:102
AlreadySignedUp(activity, email) ==
    Contains(activity.participants, email)

\* Mutation: > for >=.
ActivityIsFull_OffByOne(activity) ==
    Len(activity.participants) > activity.max_participants

\* app.py:106
ActivityIsFull(activity) ==
    Len(activity.participants) >= activity.max_participants

\* Mutation: insert(0, email) for append(email).
AddStudent_Prepend(participants, email) ==
    <<email>> \o participants

\* Mutation: the list is assigned, not appended to.
AddStudent_Replaces(participants, email) ==
    <<email>>

\* Mutation: only the username part of the email is stored.
AddStudent_StoresUsername(participants, email) ==
    Append(participants, Username(email))

\* app.py:110
AddStudent(participants, email) ==
    Append(participants, email)

\* Mutation: an empty email is refused as unprocessable.
signup_for_activity_ValidatesEmail(acts, activity_name, email) ==
    IF activity_name \notin DOMAIN acts
    THEN [activities |-> acts, response |-> ActivityNotFound]
    ELSE LET activity == acts[activity_name] IN
         IF email = ""
         THEN [activities |-> acts,
               response |-> HTTPException(422, "Invalid email")]
         ELSE IF AlreadySignedUp(activity, email)
         THEN [activities |-> acts,
               response |-> HTTPException(400,
                   "Student already signed up for this activity")]
         ELSE IF ActivityIsFull(activity)
         THEN [activities |-> acts,
               response |-> HTTPException(400, "Activity is full")]
         ELSE [activities |->
                   [acts EXCEPT ![activity_name].participants =
                                    AddStudent(@, email)],
               response |-> Message("Signed up " \o email \o " for "
                                    \o activity_name)]

\* Mutation: the student is added before the capacity is validated.
signup_for_activity_AppendsFirst(acts, activity_name, email) ==
    IF activity_name \notin DOMAIN acts
    THEN [activities |-> acts, response |-> ActivityNotFound]
    ELSE LET activity == acts[activity_name]
             added == [acts EXCEPT ![activity_name].participants =
                                       AddStudent(@, email)]
         IN
         IF AlreadySignedUp(activity, email)
         THEN [activities |-> acts,
               response |-> HTTPException(400,
                   "Student already signed up for this activity")]
         ELSE IF ActivityIsFull(activity)
         THEN [activities |-> added,
               response |-> HTTPException(400, "Activity is full")]
         ELSE [activities |-> added,
               response |-> Message("Signed up " \o email \o " for "
                                    \o activity_name)]

\* Mutation: the capacity is validated before the duplicate.
signup_for_activity_CapacityFirst(acts, activity_name, email) ==
    IF activity_name \notin DOMAIN acts
    THEN [activities |-> acts, response |-> ActivityNotFound]
    ELSE LET activity == acts[activity_name] IN
         IF ActivityIsFull(activity)
         THEN [activities |-> acts,
               response |-> HTTPException(400, "Activity is full")]
         ELSE IF AlreadySignedUp(activity, email)
         THEN [activities |-> acts,
               response |-> HTTPException(400,
                   "Student already signed up for this activity")]
         ELSE [activities |->
                   [acts EXCEPT ![activity_name].participants =
                                    AddStudent(@, email)],
               response |-> Message("Signed up " \o email \o " for "
                                    \o activity_name)]

\* Mutation: a student may be signed up for one activity only.
signup_for_activity_GlobalUnique(acts, activity_name, email) ==
    IF activity_name \notin DOMAIN acts
    THEN [activities |-> acts, response |-> ActivityNotFound]
    ELSE LET activity == acts[activity_name] IN
         IF \E other \in DOMAIN acts : AlreadySignedUp(acts[other], email)
         THEN [activities |-> acts,
               response |-> HTTPException(400,
                   "Student already signed up for this activity")]
         ELSE IF ActivityIsFull(activity)
         THEN [activities |-> acts,
               response |-> HTTPException(400, "Activity is full")]
         ELSE [activities |->
                   [acts EXCEPT ![activity_name].participants =
                                    AddStudent(@, email)],
               response |-> Message("Signed up " \o email \o " for "
                                    \o activity_name)]

\* Mutation: activities.setdefault(...) creates the missing activity.
signup_for_activity_CreatesActivity(acts, activity_name, email) ==
    LET known == IF activity_name \in DOMAIN acts THEN acts
                 ELSE acts @@ (activity_name :>
                                   Activity("", "", 1, <<>>))
        activity == known[activity_name]
    IN IF AlreadySignedUp(activity, email)
       THEN [activities |-> known,
             response |-> HTTPException(400,
                 "Student already signed up for this activity")]
       ELSE IF ActivityIsFull(activity)
       THEN [activities |-> known,
             response |-> HTTPException(400, "Activity is full")]
       ELSE [activities |->
                 [known EXCEPT ![activity_name].participants =
                                   AddStudent(@, email)],
             response |-> Message("Signed up " \o email \o " for "
                                  \o activity_name)]

\* The handler as a function of the registry it runs against: the registry
\* it leaves and the response it returns.
signup_for_activity(acts, activity_name, email) ==
    IF activity_name \notin DOMAIN acts
    THEN [activities |-> acts, response |-> ActivityNotFound]
    ELSE LET activity == acts[activity_name] IN
         IF AlreadySignedUp(activity, email)
         THEN [activities |-> acts,
               response |-> HTTPException(400,
                   "Student already signed up for this activity")]
         ELSE IF ActivityIsFull(activity)
         THEN [activities |-> acts,
               response |-> HTTPException(400, "Activity is full")]
         ELSE [activities |->
                   [acts EXCEPT ![activity_name].participants =
                                    AddStudent(@, email)],
               response |-> Message("Signed up " \o email \o " for "
                                    \o activity_name)]

Signup(activity_name, email) ==
    LET r == signup_for_activity(activities, activity_name, email) IN
    /\ request' = [op |-> "signup", activity_name |-> activity_name,
                   email |-> email]
    /\ before' = activities
    /\ activities' = r.activities
    /\ response' = r.response
    /\ UNCHANGED threads

----------------------------------------------------------------------------
(* GET /activities, app.py:86-88. *)

\* Mutation: only the activities with a free place are returned.
get_activities_OnlyAvailable(acts) ==
    LET available == {a \in DOMAIN acts : ~ActivityIsFull(acts[a])}
    IN [activities |-> acts,
        response |-> [status_code |-> 200,
                      json |-> [a \in available |-> acts[a]]]]

get_activities(acts) ==
    [activities |-> acts, response |-> [status_code |-> 200, json |-> acts]]

GetActivities ==
    LET r == get_activities(activities) IN
    /\ request' = [op |-> "get_activities"]
    /\ before' = activities
    /\ activities' = r.activities
    /\ response' = r.response
    /\ UNCHANGED threads

----------------------------------------------------------------------------
(* DELETE /activities/{activity_name}/unregister.  src/src/app.py defines  *)
(* no such route; the handler is modelled from spec.md 4.1 and 6 and the   *)
(* requests of tests/test_api.py:124-167.                                  *)

\* Mutation: the last entry is moved into the freed slot.
RemoveStudent_SwapWithLast(participants, email) ==
    LET n == Len(participants)
        i == CHOOSE k \in 1..n : participants[k] = email
    IN [k \in 1..(n - 1) |->
            IF k = i THEN participants[n] ELSE participants[k]]

\* The first occurrence of email removed, the rest in order.
RemoveStudent(participants, email) ==
    LET i == CHOOSE k \in 1..Len(participants) :
                 /\ participants[k] = email
                 /\ \A j \in 1..(k - 1) : participants[j] # email
    IN SubSeq(participants, 1, i - 1)
           \o SubSeq(participants, i + 1, Len(participants))

\* Mutation: membership is looked up first, an unknown activity counting
\* as an empty roster.
unregister_from_activity_MembershipFirst(acts, activity_name, email) ==
    LET participants == IF activity_name \in DOMAIN acts
                        THEN acts[activity_name].participants ELSE <<>>
    IN IF ~Contains(participants, email)
       THEN [activities |-> acts,
             response |-> HTTPException(400,
                 "Student is not registered for this activity")]
       ELSE [activities |->
                 [acts EXCEPT ![activity_name].participants =
                                  RemoveStudent(@, email)],
             response |-> Message("Unregistered " \o email \o " from "
                                  \o activity_name)]

\* Mutation: an absent student is unregistered without complaint.
unregister_from_activity_Lenient(acts, activity_name, email) ==
    IF activity_name \notin DOMAIN acts
    THEN [activities |-> acts,
          response |-> HTTPException(404, "Activity not found")]
    ELSE [activities |->
              [acts EXCEPT ![activity_name].participants =
                  IF Contains(@, email) THEN RemoveStudent(@, email) ELSE @],
          response |-> Message("Unregistered " \o email \o " from "
                               \o activity_name)]

unregister_from_activity(acts, activity_name, email) ==
    IF activity_name \notin DOMAIN acts
    THEN [activities |-> acts,
          response |-> HTTPException(404, "Activity not found")]
    ELSE LET activity == acts[activity_name] IN
         IF ~Contains(activity.participants, email)
         THEN [activities |-> acts,
               response |-> HTTPException(400,
                   "Student is not registered for this activity")]
         ELSE [activities |->
                   [acts EXCEPT ![activity_name].participants =
                                    RemoveStudent(@, email)],
               response |-> Message("Unregistered " \o email \o " from "
                                    \o activity_name)]

Unregister(activity_name, email) ==
    LET r == unregister_from_activity(activities, activity_name, email) IN
    /\ request' = [op |-> "unregister", activity_name |-> activity_name,
                   email |-> email]
    /\ before' = activities
    /\ activities' = r.activities
    /\ response' = r.response
    /\ UNCHANGED threads

----------------------------------------------------------------------------
(* Initial states. *)

\* f"student{i}@mergington.edu" for i in range(spots_to_fill),
\* tests/test_api.py:100-104.
StudentEmails ==
    <<"student0@mergington.edu", "student1@mergington.edu",
      "student2@mergington.edu", "student3@mergington.edu",
      "student4@mergington.edu", "student5@mergington.edu",
      "student6@mergington.edu", "student7@mergington.edu",
      "student8@mergington.edu", "student9@mergington.edu">>

\* The registry after the first n sign-ups of the fill loop of
\* test_signup_activity_full, each made through the handler.
RECURSIVE FillChessClub(_)
FillChessClub(n) ==
    IF n <= 0 THEN activities_seed
    ELSE signup_for_activity(FillChessClub(n - 1), "Chess Club",
                             StudentEmails[n]).activities

\* How many sign-ups of the fill loop leave FreePlaces places free.
SpotsFilled ==
    LET chess == activities_seed["Chess Club"]
        spots_to_fill == chess.max_participants - Len(chess.participants)
    IN IF spots_to_fill > FreePlaces THEN spots_to_fill - FreePlaces ELSE 0

\* Either the process has just started (the seed data), or the Chess Club
\* has since been filled up to FreePlaces free places.
Init ==
    /\ activities \in {activities_seed, FillChessClub(SpotsFilled)}
    /\ request = [op |-> "none"]
    /\ response = [status_code |-> 0, json |-> <<>>]
    /\ before = activities
    /\ threads = <<>>

Next ==
    \/ GetActivities
    \/ \E activity_name \in ActivityNames, email \in Emails :
           Signup(activity_name, email)
    \/ \E activity_name \in ActivityNames, email \in Emails :
           Unregister(activity_name, email)

Spec == Init /\ [][Next]_vars

----------------------------------------------------------------------------
(* Sign-ups handled concurrently.  signup_for_activity is a plain `def`    *)
(* endpoint, so each request runs in a worker thread and the threads       *)
(* interleave between the statements of app.py:94-111; the handler takes   *)
(* no lock.  Each membership test, length comparison and append is one     *)
(* step.                                                                   *)

NoResponse == [status_code |-> 0, json |-> <<>>]

Finish(t, resp) ==
    threads' = [threads EXCEPT ![t].pc = "done", ![t].response = resp]

Goto(t, label) ==
    threads' = [threads EXCEPT ![t].pc = label]

\* app.py:94-99
ValidateActivityExists(t) ==
    /\ threads[t].pc = "validate_activity_exists"
    /\ IF threads[t].activity_name \notin DOMAIN activities
       THEN Finish(t, ActivityNotFound)
       ELSE Goto(t, "validate_not_signed_up")
    /\ UNCHANGED <<activities, request, response, before>>

\* app.py:101-103
ValidateNotSignedUp(t) ==
    /\ threads[t].pc = "validate_not_signed_up"
    /\ IF AlreadySignedUp(activities[threads[t].activity_name],
                          threads[t].email)
       THEN Finish(t, HTTPException(400,
                "Student already signed up for this activity"))
       ELSE Goto(t, "validate_capacity")
    /\ UNCHANGED <<activities, request, response, before>>

\* app.py:105-107
ValidateCapacity(t) ==
    /\ threads[t].pc = "validate_capacity"
    /\ IF ActivityIsFull(activities[threads[t].activity_name])
       THEN Finish(t, HTTPException(400, "Activity is full"))
       ELSE Goto(t, "add_student")
    /\ UNCHANGED <<activities, request, response, before>>

\* Mutation: the capacity is validated again, in one step with the append.
AddStudentAndReturn_Guarded(t) ==
    /\ threads[t].pc = "add_student"
    /\ IF ActivityIsFull(activities[threads[t].activity_name])
       THEN /\ Finish(t, HTTPException(400, "Activity is full"))
            /\ UNCHANGED activities
       ELSE /\ activities' =
                   [activities EXCEPT
                        ![threads[t].activity_name].participants =
                            AddStudent(@, threads[t].email)]
            /\ Finish(t, Message("Signed up " \o threads[t].email \o " for "
                                 \o threads[t].activity_name))
    /\ UNCHANGED <<request, response, before>>

\* Mutation: the student is looked up again, in one step with the append.
AddStudentAndReturn_SkipsKnown(t) ==
    /\ threads[t].pc = "add_student"
    /\ IF AlreadySignedUp(activities[threads[t].activity_name],
                          threads[t].email)
       THEN /\ Finish(t, HTTPException(400,
                    "Student already signed up for this activity"))
            /\ UNCHANGED activities
       ELSE /\ activities' =
                   [activities EXCEPT
                        ![threads[t].activity_name].participants =
                            AddStudent(@, threads[t].email)]
            /\ Finish(t, Message("Signed up " \o threads[t].email \o " for "
                                 \o threads[t].activity_name))
    /\ UNCHANGED <<request, response, before>>

\* app.py:109-111
AddStudentAndReturn(t) ==
    /\ threads[t].pc = "add_student"
    /\ activities' =
           [activities EXCEPT ![threads[t].activity_name].participants =
                                  AddStudent(@, threads[t].email)]
    /\ Finish(t, Message("Signed up " \o threads[t].email \o " for "
                         \o threads[t].activity_name))
    /\ UNCHANGED <<request, response, before>>

\* NumCalls requests arrive together, at the seeded registry or at the one
\* with FreePlaces places left in the Chess Club.
InitConc ==
    /\ activities \in {activities_seed, FillChessClub(SpotsFilled)}
    /\ request = [op |-> "none"]
    /\ response = NoResponse
    /\ before = activities
    /\ threads \in [1..NumCalls ->
           {[activity_name |-> a, email |-> e,
             pc |-> "validate_activity_exists", response |-> NoResponse] :
                a \in ActivityNames, e \in Emails}]

NextConc ==
    \/ \E t \in DOMAIN threads : ValidateActivityExists(t)
    \/ \E t \in DOMAIN threads : ValidateNotSignedUp(t)
    \/ \E t \in DOMAIN threads : ValidateCapacity(t)
    \/ \E t \in DOMAIN threads : AddStudentAndReturn(t)

SpecConc == InitConc /\ [][NextConc]_vars

----------------------------------------------------------------------------
(* Vocabulary of the properties. *)

IsSignup == request.op = "signup"
IsUnregister == request.op = "unregister"
Succeeded == response.status_code = 200
Detail(text) == response.json = [detail |-> text]

\* The participants list of activity a in registry acts.
Roster(acts, a) == acts[a].participants

NoDuplicates(participants) ==
    \A i, j \in 1..Len(participants) :
        participants[i] = participants[j] => i = j

----------------------------------------------------------------------------
(* Properties. *)

\* C1 (capacity invariant): in every reachable state every activity has
\* len(participants) <= max_participants.
C1_Capacity ==
    \A a \in DOMAIN activities :
        Len(activities[a].participants) <= activities[a].max_participants

\* Reached: a sign-up was accepted into the last free place.
C1_Witness ==
    /\ IsSignup /\ Succeeded
    /\ Len(Roster(activities, request.activity_name))
           = activities[request.activity_name].max_participants

\* C2 (uniqueness invariant): in every reachable state no identifier occurs
\* more than once in any activity's participants list.
C2_Unique ==
    \A a \in DOMAIN activities : NoDuplicates(activities[a].participants)

\* Reached: a seeded participant, unregistered earlier, was signed up again.
C2_Witness ==
    /\ IsSignup /\ Succeeded
    /\ request.activity_name = "Chess Club"
    /\ request.email = "michael@mergington.edu"
    /\ Len(Roster(activities, "Chess Club")) >= 3

\* C3: a successful register(a, p) leaves a's participants equal to the old
\* list followed by p: one longer, every earlier entry in its old position,
\* and the listing that follows shows p on a's roster.
C3_AppendsLast ==
    (IsSignup /\ Succeeded) =>
        LET a == request.activity_name
            p == request.email
            old == Roster(before, a)
            new == Roster(activities, a)
            listed == get_activities(activities).response.json
        IN /\ new = old \o <<p>>
           /\ Len(new) = Len(old) + 1
           /\ \A i \in 1..Len(old) : new[i] = old[i]
           /\ new[Len(new)] = p
           /\ Contains(listed[a].participants, p)

\* Reached: a sign-up accepted onto a roster that already had entries.
C3_Witness ==
    /\ IsSignup /\ Succeeded
    /\ Len(Roster(before, request.activity_name)) >= 2
    /\ request.email = "new@x.edu"

\* C4: register validates no format: it succeeds exactly when the activity
\* exists, the id is not on its roster and the roster is below capacity, for
\* every id including the empty string; otherwise it fails with NotFound
\* (404) or a Conflict (400) and with no other error.
C4_SucceedsExactlyWhen ==
    IsSignup =>
        LET a == request.activity_name
            p == request.email
            ok == /\ a \in DOMAIN before
                  /\ ~Contains(before[a].participants, p)
                  /\ Len(before[a].participants) < before[a].max_participants
        IN /\ Succeeded <=> ok
           /\ ~Succeeded =>
                  \/ response = [status_code |-> 404,
                                 json |-> [detail |-> "Activity not found"]]
                  \/ response = [status_code |-> 400,
                                 json |-> [detail |->
                                     "Student already signed up for this activity"]]
                  \/ response = [status_code |-> 400,
                                 json |-> [detail |-> "Activity is full"]]

\* Reached: the empty string was accepted as a participant id.
C4_Witness ==
    /\ IsSignup /\ Succeeded
    /\ request.email = ""
    /\ Contains(Roster(activities, request.activity_name), "")

\* C5 (no partial mutation): after a rejected register or unregister the
\* whole registry - activities, rosters in order, capacities - equals the
\* registry before the call.
C5_NoPartialMutation ==
    ((IsSignup \/ IsUnregister) /\ ~Succeeded) => activities = before

\* Reached: a sign-up was rejected for capacity on a registry that earlier
\* calls had changed.
C5_Witness ==
    /\ IsSignup /\ ~Succeeded
    /\ Detail("Activity is full")
    /\ activities = before
    /\ Roster(activities, "Programming Class")
           # Roster(activities_seed, "Programming Class")

\* C6: register with an activity name that is not a key of the registry
\* fails with 404 "Activity not found", for every id, in every state.
C6_UnknownActivityNotFound ==
    (IsSignup /\ request.activity_name \notin DOMAIN before) =>
        /\ response.status_code = 404
        /\ Detail("Activity not found")

\* Reached: an unknown activity was refused after the registry had changed.
C6_Witness ==
    /\ IsSignup
    /\ request.activity_name = "Nonexistent Club"
    /\ response.status_code = 404
    /\ before # activities_seed

\* C7: register of an id already on the roster of an existing activity
\* fails with 400 "Student already signed up for this activity", whether the
\* id came from the seed data or from an earlier register.
C7_DuplicateConflict ==
    (/\ IsSignup
     /\ request.activity_name \in DOMAIN before
     /\ Contains(Roster(before, request.activity_name), request.email)) =>
        /\ response.status_code = 400
        /\ Detail("Student already signed up for this activity")

\* Reached: an id put on the roster by an earlier register was refused.
C7_Witness ==
    /\ IsSignup
    /\ request.activity_name = "Programming Class"
    /\ request.email = "new@x.edu"
    /\ response.status_code = 400
    /\ Contains(Roster(before, "Programming Class"), "new@x.edu")

\* The fill loop of test_signup_activity_full run to the end, then one more.
FilledChessClub ==
    LET chess == activities_seed["Chess Club"]
    IN FillChessClub(chess.max_participants - Len(chess.participants))

\* C8: register of a new id on an existing activity whose roster length
\* equals max_participants fails with 400 "Activity is full"; an activity
\* with k free places that accepted k new ids has a roster of length
\* max_participants and rejects the next new id.
C8_FullConflict ==
    /\ (/\ IsSignup
        /\ request.activity_name \in DOMAIN before
        /\ ~Contains(Roster(before, request.activity_name), request.email)
        /\ Len(Roster(before, request.activity_name))
               = before[request.activity_name].max_participants) =>
           /\ response.status_code = 400
           /\ Detail("Activity is full")
    /\ Len(Roster(FilledChessClub, "Chess Club"))
           = activities_seed["Chess Club"].max_participants
    /\ signup_for_activity(FilledChessClub, "Chess Club",
                           "overflow@mergington.edu").response
           = [status_code |-> 400, json |-> [detail |-> "Activity is full"]]

\* Reached: a new id was refused by a roster at capacity.
C8_Witness ==
    /\ IsSignup
    /\ request.activity_name = "Chess Club"
    /\ ~Contains(Roster(before, "Chess Club"), request.email)
    /\ Len(Roster(before, "Chess Club")) = before["Chess Club"].max_participants
    /\ response.status_code = 400

\* C9: register checks existence, then duplicate, then capacity and reports
\* the first failure: an unknown activity always yields NotFound, and an id
\* already on the roster of a full activity yields the duplicate Conflict,
\* never the full Conflict.
C9_CheckOrder ==
    IsSignup =>
        LET a == request.activity_name
            p == request.email
        IN IF a \notin DOMAIN before
           THEN Detail("Activity not found")
           ELSE IF Contains(before[a].participants, p)
           THEN Detail("Student already signed up for this activity")
           ELSE IF Len(before[a].participants) >= before[a].max_participants
           THEN Detail("Activity is full")
           ELSE Succeeded

\* Reached: an id on the roster of a full activity asked to register again.
C9_Witness ==
    /\ IsSignup
    /\ request.activity_name \in DOMAIN before
    /\ Contains(Roster(before, request.activity_name), request.email)
    /\ Len(Roster(before, request.activity_name))
           = before[request.activity_name].max_participants
    /\ Detail("Student already signed up for this activity")

\* C10: a successful unregister(a, p) removes exactly one occurrence of p
\* from a's participants and keeps the order of the rest, also for a middle
\* element: the list is one shorter and p is no longer on it.
C10_RemovesOneKeepsOrder ==
    (IsUnregister /\ Succeeded) =>
        LET a == request.activity_name
            p == request.email
            old == Roster(before, a)
            new == Roster(activities, a)
        IN /\ \E i \in 1..Len(old) :
                  /\ old[i] = p
                  /\ new = SubSeq(old, 1, i - 1) \o SubSeq(old, i + 1, Len(old))
           /\ Len(new) = Len(old) - 1
           /\ ~Contains(new, p)

\* Reached: a middle element of a roster was unregistered.
C10_Witness ==
    /\ IsUnregister /\ Succeeded
    /\ \E i \in 2..(Len(Roster(before, request.activity_name)) - 1) :
           Roster(before, request.activity_name)[i] = request.email

\* C11: unregister with an activity name that is not a key of the registry
\* fails with 404 "Activity not found" for every id; the existence check
\* comes before the membership check, so the not-registered Conflict is
\* never the answer for an unknown activity.
C11_UnregisterUnknownNotFound ==
    (IsUnregister /\ request.activity_name \notin DOMAIN before) =>
        /\ response.status_code = 404
        /\ Detail("Activity not found")
        /\ ~Detail("Student is not registered for this activity")

\* Reached: an unregister naming an unknown activity was refused after the
\* registry had changed.
C11_Witness ==
    /\ IsUnregister
    /\ request.activity_name = "Nonexistent Club"
    /\ response.status_code = 404
    /\ before # activities_seed

\* C12: unregister of an id that is not on the roster of an existing
\* activity fails with 400 "Student is not registered for this activity"
\* and leaves the roster unchanged.
C12_NotRegisteredConflict ==
    (/\ IsUnregister
     /\ request.activity_name \in DOMAIN before
     /\ ~Contains(Roster(before, request.activity_name), request.email)) =>
        /\ response.status_code = 400
        /\ Detail("Student is not registered for this activity")
        /\ Roster(activities, request.activity_name)
               = Roster(before, request.activity_name)

\* Reached: an id that is on no roster was refused by the Chess Club.
C12_Witness ==
    /\ IsUnregister
    /\ request.activity_name = "Chess Club"
    /\ request.email = "new@x.edu"
    /\ response.status_code = 400
    /\ ~Contains(Roster(activities, "Chess Club"), "new@x.edu")

\* C13 (round trip): when register(a, p) has succeeded and unregister(a, p)
\* is the next call, that call succeeds too and a's participants are again
\* exactly what they were before the register, value and order; register(a,
\* p) then succeeds again from there, so the pair can be repeated.
C13_RoundTrip ==
    [][(/\ IsSignup /\ Succeeded
        /\ request'.op = "unregister"
        /\ request'.activity_name = request.activity_name
        /\ request'.email = request.email) =>
           /\ response'.status_code = 200
           /\ Roster(activities', request.activity_name)
                  = Roster(before, request.activity_name)
           /\ activities' = before
           /\ LET again == signup_for_activity(activities',
                               request.activity_name, request.email)
              IN /\ again.response.status_code = 200
                 /\ again.activities = activities]_vars

\* Reached: a sign-up was undone by the unregister of the same pair, and the
\* roster is back to an earlier value that earlier calls had shaped.
C13_Witness ==
    /\ IsUnregister /\ Succeeded
    /\ request.email = "new@x.edu"
    /\ Roster(before, request.activity_name)
           = Roster(activities, request.activity_name) \o <<"new@x.edu">>
    /\ Contains(Roster(activities, request.activity_name), "")

\* C14 (idempotent failure): when register(a, p) has succeeded and is called
\* again at once with the same a and p, the second call fails with the
\* duplicate Conflict and the registry after it equals the registry after
\* the first call.
C14_IdempotentFailure ==
    [][(/\ IsSignup /\ Succeeded
        /\ request'.op = "signup"
        /\ request'.activity_name = request.activity_name
        /\ request'.email = request.email) =>
           /\ response' = [status_code |-> 400,
                           json |-> [detail |->
                               "Student already signed up for this activity"]]
           /\ activities' = activities]_vars

\* Reached: the id registered last on a roster was refused as a duplicate.
C14_Witness ==
    /\ IsSignup /\ ~Succeeded
    /\ Detail("Student already signed up for this activity")
    /\ request.email = "new@x.edu"
    /\ LET roster == Roster(activities, request.activity_name)
       IN roster[Len(roster)] = "new@x.edu"
    /\ activities = before

\* Every identifier the model handles: the inputs and all that is on a
\* roster before or after the call.
KnownEmails ==
    Emails
    \cup UNION {{Roster(activities, a)[i] : i \in 1..Len(Roster(activities, a))} :
                   a \in DOMAIN activities}
    \cup UNION {{Roster(before, a)[i] : i \in 1..Len(Roster(before, a))} :
                   a \in DOMAIN before}

\* C17 (frame): a successful register(a, p) or unregister(a, p) changes only
\* the membership of p in a: every other activity's participants, the
\* membership of every other id in a, and the description, schedule and
\* max_participants of every activity stay as they were; and the membership
\* of a pair (activity, id) changes only through a successful register or
\* unregister of that pair.
C17_Frame ==
    /\ ((IsSignup \/ IsUnregister) /\ Succeeded) =>
           LET a == request.activity_name
               p == request.email
           IN /\ DOMAIN activities = DOMAIN before
              /\ \A b \in DOMAIN before :
                     /\ activities[b].description = before[b].description
                     /\ activities[b].schedule = before[b].schedule
                     /\ activities[b].max_participants
                            = before[b].max_participants
                     /\ b # a => Roster(activities, b) = Roster(before, b)
              /\ \A q \in KnownEmails \ {p} :
                     Contains(Roster(activities, a), q)
                         <=> Contains(Roster(before, a), q)
              /\ Contains(Roster(activities, a), p)
                     # Contains(Roster(before, a), p)
    /\ \A b \in DOMAIN before \cap DOMAIN activities : \A q \in KnownEmails :
           (Contains(Roster(activities, b), q) # Contains(Roster(before, b), q))
               => /\ IsSignup \/ IsUnregister
                  /\ Succeeded
                  /\ request.activity_name = b
                  /\ request.email = q

\* Reached: a sign-up was accepted by a roster that held other ids, while
\* the other activity's roster was no longer the seeded one.
C17_Witness ==
    /\ IsSignup /\ Succeeded
    /\ request.activity_name = "Chess Club"
    /\ Len(Roster(before, "Chess Club")) >= 3
    /\ Roster(before, "Programming Class")
           # Roster(activities_seed, "Programming Class")

\* Rosters another activity may hold in the compared registry.
OtherRosters ==
    {<<>>, <<"new@x.edu">>, <<"", "michael@mergington.edu", "new@x.edu">>}

\* C18: uniqueness is per activity: the outcome of register(a, p) is the
\* same in two registries that differ only in the rosters of other
\* activities, and one id can be on several rosters at once.
C18_PerActivity ==
    \A a \in ActivityNames \cap DOMAIN activities : \A p \in Emails :
        LET here == signup_for_activity(activities, a, p) IN
        /\ \A b \in DOMAIN activities \ {a} : \A r \in OtherRosters :
               LET there == signup_for_activity(
                                [activities EXCEPT ![b].participants = r],
                                a, p)
               IN /\ there.response = here.response
                  /\ Roster(there.activities, a) = Roster(here.activities, a)
        /\ (/\ \E b \in DOMAIN activities \ {a} :
                   Contains(Roster(activities, b), p)
            /\ ~Contains(Roster(activities, a), p)
            /\ Len(Roster(activities, a)) < activities[a].max_participants)
               => here.response.status_code = 200

\* Reached: a sign-up put an id on a second roster while it was on another.
C18_Witness ==
    /\ IsSignup /\ Succeeded
    /\ request.email = "new@x.edu"
    /\ Contains(Roster(before, "Chess Club"), "new@x.edu")
           # Contains(Roster(before, "Programming Class"), "new@x.edu")
    /\ Contains(Roster(activities, "Chess Club"), "new@x.edu")
    /\ Contains(Roster(activities, "Programming Class"), "new@x.edu")

IsList == request.op = "get_activities"

\* C19: list() has no side effect and no error: it answers 200 with the
\* whole current registry - every activity name with its description,
\* schedule, max_participants and participants in roster order - leaves the
\* registry as it was, and a further list call returns the same.
C19_ListReadOnly ==
    IsList =>
        /\ response.status_code = 200
        /\ activities = before
        /\ DOMAIN response.json = DOMAIN before
        /\ \A a \in DOMAIN before :
               /\ response.json[a].description = before[a].description
               /\ response.json[a].schedule = before[a].schedule
               /\ response.json[a].max_participants
                      = before[a].max_participants
               /\ response.json[a].participants = before[a].participants
        /\ get_activities(activities).response = response
        /\ get_activities(activities).activities = activities

\* Reached: the listing of a registry in which an activity is full.
C19_Witness ==
    /\ IsList
    /\ response.status_code = 200
    /\ Len(Roster(activities, "Chess Club"))
           = activities["Chess Club"].max_participants
    /\ Contains(response.json["Chess Club"].participants, "new@x.edu")

\* C20: the activities and their capacities are fixed: the registry always
\* has exactly the 9 seeded names, each with its seeded max_participants,
\* which is positive; no call - a register or unregister naming an unknown
\* activity included - creates, deletes or resizes an activity.
C20_FixedActivities ==
    /\ DOMAIN activities = DOMAIN activities_seed
    /\ Cardinality(DOMAIN activities) = 9
    /\ \A a \in DOMAIN activities :
           /\ activities[a].max_participants
                  = activities_seed[a].max_participants
           /\ activities[a].max_participants > 0

\* Reached: a register naming an unknown activity was handled after the
\* rosters had changed.
C20_Witness ==
    /\ IsSignup
    /\ request.activity_name \notin DOMAIN activities_seed
    /\ activities # activities_seed
    /\ Cardinality(DOMAIN activities) = 9

\* The requests in flight that name activity a.
CallsOn(a) == {t \in DOMAIN threads : threads[t].activity_name = a}

AllDone == \A t \in DOMAIN threads : threads[t].pc = "done"

\* Places free on a's roster when the requests arrived.
FreeAtStart(a) == before[a].max_participants - Len(Roster(before, a))

\* The requests on a carry pairwise distinct ids, none on a's roster when
\* they arrived.
DistinctNewIds(a) ==
    /\ \A t, u \in CallsOn(a) :
           threads[t].email = threads[u].email => t = u
    /\ \A t \in CallsOn(a) : ~Contains(Roster(before, a), threads[t].email)

\* C15: register calls with pairwise distinct new ids running concurrently
\* against one existing activity that has at least as many free places as
\* there are calls all succeed under every interleaving, and afterwards each
\* of the ids is on the roster.
C15_NoLostRegistration ==
    \A a \in DOMAIN before :
        (/\ AllDone
         /\ Cardinality(CallsOn(a)) >= 2
         /\ DistinctNewIds(a)
         /\ FreeAtStart(a) >= Cardinality(CallsOn(a))) =>
            /\ \A t \in CallsOn(a) :
                   /\ threads[t].response.status_code = 200
                   /\ Contains(Roster(activities, a), threads[t].email)
            /\ Len(Roster(activities, a))
                   = Len(Roster(before, a)) + Cardinality(CallsOn(a))

\* Reached: two concurrent sign-ups of different new ids for the Chess Club
\* have both returned.
C15_Witness ==
    /\ AllDone
    /\ Cardinality(CallsOn("Chess Club")) >= 2
    /\ DistinctNewIds("Chess Club")
    /\ FreeAtStart("Chess Club") >= Cardinality(CallsOn("Chess Club"))
    /\ \A t \in CallsOn("Chess Club") : threads[t].response.status_code = 200

\* C16: the check and the append of register are separate steps with no
\* guard between them: a call that has passed the capacity check appends
\* and succeeds whatever the other calls have done since, so two calls with
\* different new ids on an activity with exactly one free place can both
\* pass the check before either appends, and when both have succeeded the
\* roster is longer than max_participants.
C16_CapacityRace ==
    [][/\ \A t \in DOMAIN threads :
              (threads[t].pc = "add_student" /\ threads'[t].pc = "done") =>
                  LET a == threads[t].activity_name IN
                  /\ threads'[t].response.status_code = 200
                  /\ Roster(activities', a)
                         = Roster(activities, a) \o <<threads[t].email>>
       /\ \A a \in DOMAIN before : \A t, u \in CallsOn(a) :
              (/\ threads[t].email # threads[u].email
               /\ DistinctNewIds(a)
               /\ FreeAtStart(a) = 1
               /\ threads'[t].pc = "done"
               /\ threads'[u].pc = "done"
               /\ threads'[t].response.status_code = 200
               /\ threads'[u].response.status_code = 200) =>
                  Len(Roster(activities', a)) > activities'[a].max_participants
      ]_vars

\* Reached: both calls passed the capacity check with one place free and
\* both appended.
C16_Witness ==
    /\ AllDone
    /\ FreeAtStart("Chess Club") = 1
    /\ \E t, u \in CallsOn("Chess Club") :
           /\ threads[t].email # threads[u].email
           /\ threads[t].response.status_code = 200
           /\ threads[u].response.status_code = 200
    /\ Len(Roster(activities, "Chess Club"))
           > activities["Chess Club"].max_participants

----------------------------------------------------------------------------
(* The rosters against the format of tests/test_data_validation.py. *)

AllWellFormed(acts) ==
    \A a \in DOMAIN acts : \A i \in 1..Len(Roster(acts, a)) :
        WellFormedEmail(Roster(acts, a)[i])

\* C21 as stated: at any time every participant identifier on every roster
\* ends with "@mergington.edu" and has a non-empty username part.
C21_AlwaysWellFormed ==
    AllWellFormed(activities)

\* C21 as amended: the seeded rosters have that form, and a call leaves the
\* rosters in that form unless it is a successful register of an identifier
\* of another form, which register accepts.
C21_WellFormedUnlessRegistered ==
    /\ AllWellFormed(activities_seed)
    /\ (/\ AllWellFormed(before)
        /\ ~(IsSignup /\ Succeeded /\ ~WellFormedEmail(request.email)))
           => AllWellFormed(activities)

\* Reached: a well-formed identifier was registered on rosters that were
\* all well-formed, and they still are.
C21_Witness ==
    /\ IsSignup /\ Succeeded
    /\ WellFormedEmail(request.email)
    /\ AllWellFormed(before)
    /\ AllWellFormed(activities)
    /\ Len(Roster(before, request.activity_name)) >= 2

\* C22: an error is repeatable: after a register or unregister call has
\* returned an error, the same call on the registry it left returns the same
\* error and leaves the same registry, so it does any number of times.
C22_RepeatableError ==
    /\ (IsSignup /\ ~Succeeded) =>
           LET retry == signup_for_activity(activities,
                            request.activity_name, request.email)
           IN /\ retry.response = response
              /\ retry.activities = activities
    /\ (IsUnregister /\ ~Succeeded) =>
           LET retry == unregister_from_activity(activities,
                            request.activity_name, request.email)
           IN /\ retry.response = response
              /\ retry.activities = activities

\* Reached: a seeded participant was refused as a duplicate.
C22_Witness ==
    /\ IsSignup /\ ~Succeeded
    /\ request.activity_name = "Chess Club"
    /\ request.email = "michael@mergington.edu"
    /\ Roster(activities, "Chess Club")[1] = "michael@mergington.edu"
    /\ Detail("Student already signed up for this activity")

\* How often email occurs in participants.
Occurrences(participants, email) ==
    Cardinality({i \in 1..Len(participants) : participants[i] = email})

\* C23: the duplicate check and the append of register are separate steps
\* with no guard between them: a call past the check appends its id even if
\* another call has appended it since, so two concurrent calls with the same
\* activity and the same new id can both pass the check and leave the id
\* twice on the roster; a duplicate only ever appears through such an
\* overlapping call.
C23_DuplicateRace ==
    [][/\ \A t \in DOMAIN threads :
              (threads[t].pc = "add_student" /\ threads'[t].pc = "done") =>
                  LET a == threads[t].activity_name
                      p == threads[t].email
                  IN /\ threads'[t].response.status_code = 200
                     /\ Occurrences(Roster(activities', a), p)
                            = Occurrences(Roster(activities, a), p) + 1
                     /\ (Occurrences(Roster(activities', a), p) > 1
                         /\ NoDuplicates(Roster(before, a))) =>
                            \E u \in CallsOn(a) \ {t} :
                                /\ threads[u].email = p
                                /\ threads[u].pc = "done"
                                /\ threads[u].response.status_code = 200
       /\ \A a \in DOMAIN before : \A t, u \in CallsOn(a) :
              (/\ t # u
               /\ threads[t].email = threads[u].email
               /\ ~Contains(Roster(before, a), threads[t].email)
               /\ threads'[t].pc = "done"
               /\ threads'[u].pc = "done"
               /\ threads'[t].response.status_code = 200
               /\ threads'[u].response.status_code = 200) =>
                  /\ Occurrences(Roster(activities', a), threads[t].email) >= 2
                  /\ ~NoDuplicates(Roster(activities', a))
      ]_vars

\* Reached: both calls passed the duplicate check and both appended.
C23_Witness ==
    /\ AllDone
    /\ \E t, u \in CallsOn("Programming Class") :
           /\ t # u
           /\ threads[t].email = "new@x.edu"
           /\ threads[u].email = "new@x.edu"
           /\ threads[t].response.status_code = 200
           /\ threads[u].response.status_code = 200
    /\ Occurrences(Roster(activities, "Programming Class"), "new@x.edu") = 2

\* The roster of activity a in registry acts is at capacity.
RosterFull(acts, a) ==
    Len(Roster(acts, a)) = acts[a].max_participants

\* Identifiers that may ask for a place, one of them on no roster.
Applicants == Emails \cup {"overflow@mergington.edu"}

\* C24: once a roster is full it stays full, and every register of an id
\* not on it is rejected as full, until an unregister on that activity
\* succeeds; that unregister leaves exactly one place free, so the next
\* register of an id not on the roster succeeds and the one after it is
\* rejected as full again.
C24_FullUntilUnregister ==
    [][\A a \in DOMAIN activities :
          /\ (/\ RosterFull(activities, a)
              /\ ~(/\ request'.op = "unregister"
                   /\ request'.activity_name = a
                   /\ response'.status_code = 200)) =>
                 /\ RosterFull(activities', a)
                 /\ (/\ request'.op = "signup"
                     /\ request'.activity_name = a
                     /\ ~Contains(Roster(activities, a), request'.email)) =>
                        response' = [status_code |-> 400,
                                     json |-> [detail |-> "Activity is full"]]
          /\ (/\ RosterFull(activities, a)
              /\ request'.op = "unregister"
              /\ request'.activity_name = a
              /\ response'.status_code = 200) =>
                 /\ activities'[a].max_participants
                        - Len(Roster(activities', a)) = 1
                 /\ \A p \in Applicants :
                        ~Contains(Roster(activities', a), p) =>
                            LET next == signup_for_activity(activities', a, p)
                            IN /\ next.response.status_code = 200
                               /\ RosterFull(next.activities, a)
                               /\ \A q \in Applicants :
                                      ~Contains(Roster(next.activities, a), q)
                                      => signup_for_activity(next.activities,
                                             a, q).response
                                         = [status_code |-> 400,
                                            json |-> [detail |->
                                                "Activity is full"]]
      ]_vars

\* Reached: an unregister freed one place of a full roster.
C24_Witness ==
    /\ IsUnregister /\ Succeeded
    /\ RosterFull(before, request.activity_name)
    /\ activities[request.activity_name].max_participants
           - Len(Roster(activities, request.activity_name)) = 1

====
